---------------------------- MODULE Spec2Model ----------------------------
(***************************************************************************)
(* A model of StockfishEngine (src/src/engine.ts): the supervisor of a UCI *)
(* engine subprocess.  The node.js event loop runs one callback at a time, *)
(* so every action below is one callback (a caller's call, a 'data' line,  *)
(* an 'exit' event, a timer) together with the promise continuations       *)
(* (microtasks) that it makes runnable.                                    *)
(*                                                                         *)
(* Strings are TLA+ strings; the string functions of JavaScript that the   *)
(* code uses (trim, split, startsWith, join, parseInt, template literals)  *)
(* are the operators of the first section.  An optional value (undefined   *)
(* or a value) is a sequence of length 0 or 1.                             *)
(***************************************************************************)
EXTENDS Integers, Sequences, FiniteSets, TLC

-----------------------------------------------------------------------------
(* Bounds of the model.  An environment (the calls of the game layer and   *)
(* the output of the engine) is bounded by a record of these.               *)

\* The number of subprocesses that spawn() launches successfully.
MaxProcs == 2
\* The number of start() invocations (by the caller or by a restart).
MaxStarts == 2
\* The number of getBestMove() calls.
MaxReqs == 1
\* The number of 'isready' commands one subprocess is sent (one per 'uciok').
MaxIsready == 1
\* The same bounds, where two getBestMove() calls overlap on one subprocess.
SearchMaxProcs == 1
SearchMaxStarts == 1
SearchMaxReqs == 2
\* The same bounds, where the engine announces its options.
OptionsMaxProcs == 1
OptionsMaxStarts == 1
OptionsMaxReqs == 1
\* The largest number that an option line gives as a default, min or max.
MaxOptionValue == 20
\* The subprocesses, the start() invocations and the makeEngineMove() calls of
\* one game.
GameMaxProcs == 1
GameMaxStarts == 2
GameMaxReqs == 2
\* The calls of start() by the caller, the subprocesses and the getBestMove()
\* calls where every call is followed until it settles.
SettleMaxCalls == 1
SettleMaxProcs == 2
SettleMaxReqs == 1

-----------------------------------------------------------------------------
(* JavaScript values and string functions. *)

None == <<>>
Some(v) == <<v>>
IsSome(o) == o # <<>>
Val(o) == o[1]

\* Truthiness of an optional number: undefined and 0 are falsy.
TruthyNum(o) == o # <<>> /\ o[1] # 0
\* Truthiness of an optional string: undefined and "" are falsy.
TruthyStr(o) == o # <<>> /\ o[1] # ""
\* a || b on optional numbers.
OrNum(a, b) == IF TruthyNum(a) THEN a ELSE b

Ch(s, i) == SubSeq(s, i, i)

WhiteSpace == {" ", "\t", "\n", "\r"}

RECURSIVE TrimStart(_)
TrimStart(s) ==
  IF Len(s) > 0 /\ Ch(s, 1) \in WhiteSpace THEN TrimStart(SubSeq(s, 2, Len(s))) ELSE s

RECURSIVE TrimEnd(_)
TrimEnd(s) ==
  IF Len(s) > 0 /\ Ch(s, Len(s)) \in WhiteSpace THEN TrimEnd(SubSeq(s, 1, Len(s) - 1)) ELSE s

\* String.prototype.trim
Trim(s) == TrimEnd(TrimStart(s))

\* String.prototype.startsWith
StartsWith(s, p) == Len(s) >= Len(p) /\ SubSeq(s, 1, Len(p)) = p

\* The position of the first occurrence of the one-character separator c in s
\* at or after position i, or 0.
RECURSIVE IndexOf(_, _, _)
IndexOf(s, c, i) ==
  IF i > Len(s) THEN 0
  ELSE IF Ch(s, i) = c THEN i
  ELSE IndexOf(s, c, i + 1)

\* String.prototype.split with a one-character separator: "a  b" gives
\* <<"a", "", "b">> and "" gives <<"">>.
RECURSIVE Split(_, _)
Split(s, c) ==
  LET k == IndexOf(s, c, 1)
  IN IF k = 0 THEN <<s>>
     ELSE <<SubSeq(s, 1, k - 1)>> \o Split(SubSeq(s, k + 1, Len(s)), c)

\* Array.prototype.join
RECURSIVE Join(_, _)
Join(parts, sep) ==
  IF Len(parts) = 0 THEN ""
  ELSE IF Len(parts) = 1 THEN parts[1]
  ELSE parts[1] \o sep \o Join(Tail(parts), sep)

\* parts[i] of a JavaScript array with a 0-based index: undefined out of range.
At(parts, i) == IF i >= 0 /\ i < Len(parts) THEN Some(parts[i + 1]) ELSE None

\* Array.prototype.slice(from, to) with 0-based indices; a negative index
\* counts from the end of the array.
Slice(parts, from, to) ==
  LET n == Len(parts)
      norm(k) == IF k < 0 THEN (IF n + k < 0 THEN 0 ELSE n + k)
                 ELSE (IF k > n THEN n ELSE k)
      a == norm(from)
      b == norm(to)
  IN IF a >= b THEN <<>> ELSE SubSeq(parts, a + 1, b)

DigitChars == "0123456789"
DigitOf(c) == CHOOSE d \in 0..9 : Ch(DigitChars, d + 1) = c
IsDigit(c) == \E d \in 0..9 : Ch(DigitChars, d + 1) = c

\* The decimal numeral of a natural number, as a template literal prints it.
RECURSIVE ToStr(_)
ToStr(n) ==
  IF n < 10 THEN Ch(DigitChars, n + 1)
  ELSE ToStr(n \div 10) \o Ch(DigitChars, (n % 10) + 1)

\* The value of the longest prefix of s made of digits, given the value acc
\* of the digits read so far.
RECURSIVE DigitsValue(_, _)
DigitsValue(s, acc) ==
  IF Len(s) > 0 /\ IsDigit(Ch(s, 1))
  THEN DigitsValue(SubSeq(s, 2, Len(s)), 10 * acc + DigitOf(Ch(s, 1)))
  ELSE acc

\* Number.parseInt of an optional string: leading white space is skipped, an
\* optional sign is read, then the digits; NaN (here None) when no digit
\* follows, and for undefined.
ParseInt(o) ==
  IF o = None THEN None
  ELSE LET t == TrimStart(o[1])
           neg == Len(t) > 0 /\ Ch(t, 1) = "-"
           u == IF Len(t) > 0 /\ Ch(t, 1) \in {"-", "+"} THEN SubSeq(t, 2, Len(t)) ELSE t
       IN IF Len(u) > 0 /\ IsDigit(Ch(u, 1))
          THEN Some(IF neg THEN 0 - DigitsValue(u, 0) ELSE DigitsValue(u, 0))
          ELSE None

-----------------------------------------------------------------------------
(* parseOption: one `option name ...` line into an entry of the option map. *)

\* parts.findIndex((part, index) => index > i && part === 'type'): the
\* 0-based index of the first such part at or after index k, or -1.
RECURSIVE FindType(_, _, _)
FindType(parts, i, k) ==
  IF k >= Len(parts) THEN -1
  ELSE IF k > i /\ parts[k + 1] = "type" THEN k
  ELSE FindType(parts, i, k + 1)

\* The while loop of parseOption from index i on: the optional parameters.
RECURSIVE ParseParams(_, _, _)
ParseParams(parts, i, option) ==
  IF i >= Len(parts) THEN option
  ELSE LET param == parts[i + 1]
           arg == At(parts, i + 1)
       IN IF param = "default"
          THEN ParseParams(parts, i + 2, [option EXCEPT !.default = arg])
          ELSE IF param = "min"
          THEN ParseParams(parts, i + 2, [option EXCEPT !.min = Some(ParseInt(arg))])
          ELSE IF param = "max"
          THEN ParseParams(parts, i + 2, [option EXCEPT !.max = Some(ParseInt(arg))])
          ELSE IF param = "var"
          THEN ParseParams(parts, i + 2,
                 [option EXCEPT !.var = Some((IF @ = None THEN <<>> ELSE @[1]) \o <<arg>>)])
          ELSE ParseParams(parts, i + 1, option)

\* The option built with the first token of the name taken for the name.
ParsedOptionNameOneToken(line) ==
  LET parts == Split(line, " ")
      nameEnd == FindType(parts, 2, 0)
      name == Join(Slice(parts, 2, 3), " ")
      type == At(parts, nameEnd + 1)
  IN ParseParams(parts, nameEnd + 2,
       [name |-> name, type |-> type, default |-> None,
        min |-> None, max |-> None, var |-> None])

\* The Partial<UCIOption> that parseOption builds from a line.  name is a
\* string, type an optional string; default an optional string; min and max
\* are absent (None) or Some(the result of parseInt, None standing for NaN);
\* var is absent or Some(the list of the tokens pushed).
ParsedOption(line) ==
  LET parts == Split(line, " ")
      nameEnd == FindType(parts, 2, 0)
      name == Join(Slice(parts, 2, nameEnd), " ")
      type == At(parts, nameEnd + 1)
  IN ParseParams(parts, nameEnd + 2,
       [name |-> name, type |-> type, default |-> None,
        min |-> None, max |-> None, var |-> None])

\* Map.prototype.set
MapSet(map, key, value) ==
  [k \in DOMAIN map \cup {key} |-> IF k = key THEN value ELSE map[k]]

EmptyMap == [k \in {} |-> None]

\* parseOption(line) on the option map: the entry is stored only if both
\* option.name and option.type are truthy.
parseOption(line, map) ==
  LET option == ParsedOption(line)
  IN IF option.name # "" /\ TruthyStr(option.type)
     THEN MapSet(map, option.name, option)
     ELSE map

-----------------------------------------------------------------------------
(* The state. *)

VARIABLES
  config,        \* the GameConfig given to the constructor
  process,       \* this.process: 0 for null, or the index in procs of the handle
  isReady,       \* this.isReady
  isRestarting,  \* this.isRestarting
  options,       \* this.options: option name -> UCIOption
  procs,         \* every subprocess spawned: its status and what was written to its stdin
  starts,        \* every start() invocation: the subprocess it spawned and its promise
  reqs,          \* every getBestMove() call: its promise
  readyL,        \* the once('ready') listeners, in order of registration (start indices)
  bestL,         \* the once('bestmove') listeners, in order of registration (request indices)
  timers,        \* the armed setTimeout timers, in the order they were armed
  restart,       \* the attemptRestart() invocation in flight, if any
  restartFailed, \* the number of 'restart-failed' events emitted
  autoRestarts,  \* the number of restarts the 'exit' listener has announced and begun
  crashed,       \* an exception has escaped an event handler (uncaught exception)
  gameState,     \* ChessGame.gameState
  coreGameState, \* ChessGame.coreGameState: the board and the side to move
  moveHistory,   \* ChessGame.moveHistory
  initCall,      \* the start() that a pending initialize() awaits, or 0
  engineCall,    \* the getBestMove() that a pending makeEngineMove() awaits, if any
  result         \* the MoveResult that the last makePlayerMove/makeEngineMove returned

vars == <<config, process, isReady, isRestarting, options, procs, starts, reqs,
          readyL, bestL, timers, restart, restartFailed, autoRestarts, crashed,
          gameState, coreGameState, moveHistory, initCall, engineCall, result>>

\* The state as one record, so that the code's methods are functions from state
\* to state.  thrown is the exception in flight, if any, while a handler runs.
State ==
  [config |-> config, process |-> process, isReady |-> isReady,
   isRestarting |-> isRestarting, options |-> options, procs |-> procs,
   starts |-> starts, reqs |-> reqs, readyL |-> readyL, bestL |-> bestL,
   timers |-> timers, restart |-> restart, restartFailed |-> restartFailed,
   autoRestarts |-> autoRestarts, crashed |-> crashed, thrown |-> FALSE,
   game |-> [gameState |-> gameState, coreGameState |-> coreGameState,
             moveHistory |-> moveHistory, initCall |-> initCall,
             engineCall |-> engineCall, result |-> result]]

\* No attemptRestart() is in flight.
NoRestart == [pc |-> "idle", start |-> 0, req |-> 0]

\* setTimeout(callback, ms): the timer is armed after those armed before it.
SetTimeout(s, kind, id, ms) ==
  [s EXCEPT !.timers = Append(@, [kind |-> kind, id |-> id, ms |-> ms])]

\* The sequence without its i-th element.
RemoveAt(seq, i) == SubSeq(seq, 1, i - 1) \o SubSeq(seq, i + 1, Len(seq))

\* The sequence without the elements that satisfy Drop.
RECURSIVE Without(_, _)
Without(seq, drop) ==
  IF seq = <<>> THEN <<>>
  ELSE IF Head(seq) \in drop THEN Without(Tail(seq), drop)
  ELSE <<Head(seq)>> \o Without(Tail(seq), drop)

\* clearTimeout(timeout); a timer that has fired or was cleared is not in timers.
ClearTimeout(s, kind, id) ==
  [s EXCEPT !.timers = Without(@, {t \in {@[i] : i \in DOMAIN @} : t.kind = kind /\ t.id = id})]

\* A timer can fire when no timer armed before it with a delay that is not
\* longer is still armed: node runs timers in the order of their deadlines.
CanFire(i) ==
  /\ i \in DOMAIN timers
  /\ \A j \in 1..(i - 1) : timers[j].ms > timers[i].ms

-----------------------------------------------------------------------------
(* The methods of StockfishEngine, as functions from state to state. *)

\* sendCommand(command): throws when there is no process handle; a handle that
\* start() kept always has its stdin.
sendCommand(s, command) ==
  IF s.process = 0
  THEN [s EXCEPT !.thrown = TRUE]
  ELSE [s EXCEPT !.procs[s.process].stdin = Append(@, command \o "\n")]

\* configureEngine() limiting the strength at every configured skill level,
\* the maximum included.
configureEngineLimitAlways(s) ==
  LET level == s.config.skillLevel
      s1 == IF IsSome(level) /\ "Skill Level" \in DOMAIN s.options
            THEN sendCommand(s, "setoption name Skill Level value " \o ToStr(Val(level)))
            ELSE s
  IN IF s1.thrown THEN s1
     ELSE IF TruthyNum(level) /\ "UCI_LimitStrength" \in DOMAIN s.options
     THEN sendCommand(s1, "setoption name UCI_LimitStrength value true")
     ELSE s1

\* configureEngine()
configureEngine(s) ==
  LET level == s.config.skillLevel
      s1 == IF IsSome(level) /\ "Skill Level" \in DOMAIN s.options
            THEN sendCommand(s, "setoption name Skill Level value " \o ToStr(Val(level)))
            ELSE s
  IN IF s1.thrown THEN s1
     ELSE IF TruthyNum(level) /\ Val(level) < 20 /\ "UCI_LimitStrength" \in DOMAIN s.options
     THEN sendCommand(s1, "setoption name UCI_LimitStrength value true")
     ELSE s1

\* resolve() and reject() of the promise of start() number k: a settled
\* promise stays as it is.
resolveStart(s, k) ==
  IF s.starts[k].st = "pending" THEN [s EXCEPT !.starts[k].st = "resolved"] ELSE s

rejectStart(s, k, err) ==
  IF s.starts[k].st = "pending"
  THEN [s EXCEPT !.starts[k].st = "rejected", !.starts[k].err = err]
  ELSE s

\* resolve(move) and reject(error) of the promise of getBestMove() number r.
resolveReq(s, r, move) ==
  IF s.reqs[r].st = "waiting"
  THEN [s EXCEPT !.reqs[r].st = "resolved", !.reqs[r].move = move]
  ELSE s

rejectReq(s, r, err) ==
  IF s.reqs[r].st \in {"restarting", "waiting"}
  THEN [s EXCEPT !.reqs[r].st = "rejected", !.reqs[r].err = err]
  ELSE s

\* The body of the promise of start(), invoked by the caller or by a restart.
\* spawn() either launches a subprocess (spawned) or throws.
start(s, by, spawned) ==
  LET k == Len(s.starts) + 1
      pid == Len(s.procs) + 1
  IN IF ~spawned
     THEN [s EXCEPT !.starts = Append(@, [pid |-> 0, st |-> "rejected",
                                           err |-> "spawn", by |-> by])]
     ELSE LET s1 == [s EXCEPT !.process = pid,
                              !.procs = Append(@, [status |-> "alive", stdin |-> <<>>]),
                              !.starts = Append(@, [pid |-> pid, st |-> "pending",
                                                    err |-> "", by |-> by]),
                              !.readyL = Append(@, k)]
              s2 == sendCommand(s1, "uci")
          IN SetTimeout(s2, "init", k, 10000)

\* The once('ready') listener of start() number k.
readyListener(s, k) ==
  LET s1 == configureEngine(s)
  IN IF s1.thrown THEN s1 ELSE resolveStart(s1, k)

\* emit('ready'): the listeners registered at the time of the call run in
\* order; a once listener is removed just before it runs; an exception of a
\* listener ends the emit.
RECURSIVE emitReady(_, _)
emitReady(s, listeners) ==
  IF listeners = <<>> THEN s
  ELSE LET k == Head(listeners)
           s1 == readyListener([s EXCEPT !.readyL = Without(@, {k})], k)
       IN IF s1.thrown THEN s1 ELSE emitReady(s1, Tail(listeners))

\* The once('bestmove') listener of getBestMove() number r.
bestmoveListener(s, r, move) ==
  resolveReq(ClearTimeout(s, "search", r), r, move)

\* emit('bestmove', move)
RECURSIVE emitBestmove(_, _, _)
emitBestmove(s, listeners, move) ==
  IF listeners = <<>> THEN s
  ELSE LET r == Head(listeners)
           s1 == bestmoveListener([s EXCEPT !.bestL = Without(@, {r})], r, move)
       IN emitBestmove(s1, Tail(listeners), move)

\* handleEngineOutput taking an `info` line for the end of the handshake.
handleEngineOutputReadyOnInfo(s, line) ==
  LET trimmed == Trim(line)
  IN IF StartsWith(trimmed, "option name")
     THEN [s EXCEPT !.options = parseOption(trimmed, @)]
     ELSE IF trimmed = "uciok" THEN sendCommand(s, "isready")
     ELSE IF trimmed = "readyok" \/ StartsWith(trimmed, "info")
     THEN emitReady([s EXCEPT !.isReady = TRUE], s.readyL)
     ELSE IF StartsWith(trimmed, "bestmove")
     THEN emitBestmove(s, s.bestL, At(Split(trimmed, " "), 1))
     ELSE s

\* handleEngineOutput with the move taken to be all that follows `bestmove `.
handleEngineOutputMoveWithPonder(s, line) ==
  LET trimmed == Trim(line)
  IN IF StartsWith(trimmed, "option name")
     THEN [s EXCEPT !.options = parseOption(trimmed, @)]
     ELSE IF trimmed = "uciok" THEN sendCommand(s, "isready")
     ELSE IF trimmed = "readyok"
     THEN emitReady([s EXCEPT !.isReady = TRUE], s.readyL)
     ELSE IF StartsWith(trimmed, "bestmove")
     THEN emitBestmove(s, s.bestL,
            IF Len(trimmed) > 9 THEN Some(SubSeq(trimmed, 10, Len(trimmed))) ELSE None)
     ELSE s

\* handleEngineOutput with the handshake cut short: `uciok` is taken for the
\* end of the handshake.
handleEngineOutputReadyOnUciok(s, line) ==
  LET trimmed == Trim(line)
  IN IF StartsWith(trimmed, "option name")
     THEN [s EXCEPT !.options = parseOption(trimmed, @)]
     ELSE IF trimmed = "uciok" \/ trimmed = "readyok"
     THEN emitReady([s EXCEPT !.isReady = TRUE], s.readyL)
     ELSE IF StartsWith(trimmed, "bestmove")
     THEN emitBestmove(s, s.bestL, At(Split(trimmed, " "), 1))
     ELSE s

\* handleEngineOutput(line)
handleEngineOutput(s, line) ==
  LET trimmed == Trim(line)
  IN IF StartsWith(trimmed, "id name") THEN s
     ELSE IF StartsWith(trimmed, "id author") THEN s
     ELSE IF StartsWith(trimmed, "option name")
     THEN [s EXCEPT !.options = parseOption(trimmed, @)]
     ELSE IF trimmed = "uciok" THEN sendCommand(s, "isready")
     ELSE IF trimmed = "readyok"
     THEN emitReady([s EXCEPT !.isReady = TRUE], s.readyL)
     ELSE IF StartsWith(trimmed, "bestmove")
     THEN emitBestmove(s, s.bestL, At(Split(trimmed, " "), 1))
     ELSE IF StartsWith(trimmed, "info") THEN s   \* emit('info'): no listener
     ELSE s

\* The stdout 'data' listener: the chunk is trimmed, split at newlines, and
\* every part is handled as a line; an exception ends the loop.
RECURSIVE handleLines(_, _)
handleLines(s, lines) ==
  IF lines = <<>> \/ s.thrown THEN s
  ELSE handleLines(handleEngineOutput(s, Head(lines)), Tail(lines))

\* const lines = data.toString().trim().split('\n')
lines(data) == Split(Trim(data), "\n")

onData(s, data) == handleLines(s, lines(data))

\* The search command with a time limit taking precedence over the depth.
goCommandTimeFirst(s, timeLimit) ==
  IF TruthyNum(timeLimit) \/ TruthyNum(s.config.timeLimit)
  THEN "go movetime " \o ToStr(Val(OrNum(timeLimit, s.config.timeLimit)))
  ELSE IF TruthyNum(s.config.depth)
  THEN "go depth " \o ToStr(Val(s.config.depth))
  ELSE "go depth 10"

\* The search command of getBestMove(position, timeLimit).
goCommand(s, timeLimit) ==
  IF TruthyNum(s.config.depth)
  THEN "go depth " \o ToStr(Val(s.config.depth))
  ELSE IF TruthyNum(timeLimit) \/ TruthyNum(s.config.timeLimit)
  THEN "go movetime " \o ToStr(Val(OrNum(timeLimit, s.config.timeLimit)))
  ELSE "go depth 10"

\* The delay of the timeout without the second of grace.
searchTimeoutMsNoGrace(s, timeLimit) ==
  Val(OrNum(OrNum(timeLimit, s.config.timeLimit), Some(5000)))

\* The delay of the timeout of getBestMove(position, timeLimit).
searchTimeoutMs(s, timeLimit) ==
  Val(OrNum(OrNum(timeLimit, s.config.timeLimit), Some(5000))) + 1000

\* getBestMove() number r from its second test of isReady on: the throw when
\* the engine is not ready, and the body of the promise.  An exception in
\* the body of a promise rejects the promise.
getBestMoveBody(s, r) ==
  IF ~s.isReady THEN rejectReq(s, r, "not ready")
  ELSE LET timeLimit == s.reqs[r].timeLimit
           s1 == SetTimeout([s EXCEPT !.reqs[r].st = "waiting"], "search", r,
                            searchTimeoutMs(s, timeLimit))
           s2 == [s1 EXCEPT !.bestL = Append(@, r)]
           s3 == sendCommand(s2, "position fen " \o s.reqs[r].position)
           s4 == IF s3.thrown THEN s3 ELSE sendCommand(s3, goCommand(s3, timeLimit))
       IN IF s4.thrown
          THEN rejectReq([s4 EXCEPT !.thrown = FALSE], r, "not available")
          ELSE s4

\* attemptRestart() up to its first await, called by the 'exit' listener
\* (r = 0) or by getBestMove() number r, which awaits it.
attemptRestart(s, r) ==
  IF s.isRestarting
  THEN (IF r = 0 THEN s ELSE getBestMoveBody(s, r))
  ELSE SetTimeout([s EXCEPT !.isRestarting = TRUE,
                            !.restart = [pc |-> "delay", start |-> 0, req |-> r]],
                  "restart", 0, 1000)

\* attemptRestart() after its one-second delay, up to the await of start().
restartDelayElapsed(s, spawned) ==
  LET s1 == [s EXCEPT !.process = 0, !.isReady = FALSE, !.options = EmptyMap]
      s2 == start(s1, "restart", spawned)
  IN [s2 EXCEPT !.restart = [pc |-> "handshake", start |-> Len(s2.starts),
                             req |-> s.restart.req]]

\* attemptRestart() after start() has settled: the catch and the finally,
\* then the getBestMove() that awaits the restart, if any.
attemptRestartEnd(s) ==
  LET s1 == IF s.starts[s.restart.start].st = "rejected"
            THEN [s EXCEPT !.restartFailed = @ + 1]   \* emit('restart-failed', error)
            ELSE s
      s2 == [s1 EXCEPT !.isRestarting = FALSE, !.restart = NoRestart]
  IN IF s.restart.req = 0 THEN s2 ELSE getBestMoveBody(s2, s.restart.req)

\* The promise continuations that a callback has made runnable; they run when
\* the callback has returned, before any other event.
Microtasks(s) ==
  IF ~s.thrown /\ s.restart.pc = "handshake" /\ s.starts[s.restart.start].st # "pending"
  THEN attemptRestartEnd(s)
  ELSE s

\* getBestMove(position, timeLimit), call number Len(reqs) + 1.
getBestMove(s, position, timeLimit) ==
  LET r == Len(s.reqs) + 1
      s1 == [s EXCEPT !.reqs = Append(@, [st |-> "restarting", move |-> None, err |-> "",
                                          position |-> position, timeLimit |-> timeLimit])]
  IN IF ~s.isReady /\ ~s.isRestarting
     THEN attemptRestart(s1, r)
     ELSE getBestMoveBody(s1, r)

\* The 'exit' listener restarting only after an exit code that is a non-zero
\* number, not after the null code of a subprocess that a signal ended.
onExitNumericCode(s, p, code) ==
  LET s1 == [s EXCEPT !.procs[p].status = "exited", !.isReady = FALSE]
  IN IF ~s.isRestarting /\ TruthyNum(code)
     THEN attemptRestart([s1 EXCEPT !.autoRestarts = @ + 1], 0)
     ELSE s1

\* The 'exit' listener of subprocess p.
onExit(s, p, code) ==
  LET s1 == [s EXCEPT !.procs[p].status = "exited", !.isReady = FALSE]
  IN IF ~s.isRestarting /\ code # Some(0)
     THEN attemptRestart([s1 EXCEPT !.autoRestarts = @ + 1], 0)
     ELSE s1

\* The callback of the ten-second timer of start() number k.
initTimeout(s, k) ==
  IF ~s.isReady THEN rejectStart(s, k, "timeout") ELSE s

\* The callback of the timer of getBestMove() that leaves the call pending.
searchTimeoutKeepsWaiting(s, r) == s

\* The callback of the timer of getBestMove() number r.
searchTimeout(s, r) == rejectReq(s, r, "timeout")

\* stop(); kill() of a subprocess that has exited does nothing.
stop(s) ==
  LET s1 == [s EXCEPT !.isRestarting = TRUE]
  IN IF s1.process # 0
     THEN LET s2 == sendCommand(s1, "quit")
          IN [s2 EXCEPT !.procs[s.process].status = IF @ = "alive" THEN "killed" ELSE @,
                        !.process = 0,
                        !.isReady = FALSE]
     ELSE s1

-----------------------------------------------------------------------------
(* The chess library that ChessGame calls, on a board of two pawns. *)

WHITE == "white"
BLACK == "black"

\* A square of the board: row 0 is rank 8, column 0 is file a.  The row of a
\* Position is None when parsePosition computed NaN.
OnBoard == 0..7

\* initGameState(): white to move; of the initial position the model keeps
\* the pawns of the e file.
initGameState ==
  [board |-> (<<6, 4>> :> [type |-> "pawn", color |-> WHITE])
               @@ (<<1, 4>> :> [type |-> "pawn", color |-> BLACK]),
   currentTurn |-> WHITE]

\* getLegalMoves(position, gameState): the squares that the piece on the
\* position can move to; none when the position holds no piece of the side to
\* move.  A pawn advances one empty square, or two from its home row.
getLegalMoves(pos, state) ==
  IF pos.row = None \/ <<Val(pos.row), pos.col>> \notin DOMAIN state.board THEN {}
  ELSE LET r == Val(pos.row)
           piece == state.board[<<r, pos.col>>]
           dir == IF piece.color = WHITE THEN 0 - 1 ELSE 1
           home == IF piece.color = WHITE THEN 6 ELSE 1
           free(row) == row \in OnBoard /\ <<row, pos.col>> \notin DOMAIN state.board
           one == IF free(r + dir) THEN {r + dir} ELSE {}
           two == IF r = home /\ free(r + dir) /\ free(r + 2 * dir) THEN {r + 2 * dir} ELSE {}
       IN IF piece.color # state.currentTurn THEN {}
          ELSE {[row |-> Some(row), col |-> pos.col] : row \in one \cup two}

\* movePiece(from, to, gameState): the state after the move, with the turn
\* handed to the other side, or null (None) when the move is not legal.
movePiece(from, to, state) ==
  IF to \notin getLegalMoves(from, state) THEN None
  ELSE LET f == <<Val(from.row), from.col>>
           t == <<Val(to.row), to.col>>
       IN Some([board |-> [k \in (DOMAIN state.board \ {f}) \cup {t} |->
                             IF k = t THEN state.board[f] ELSE state.board[k]],
                currentTurn |-> IF state.currentTurn = WHITE THEN BLACK ELSE WHITE])

-----------------------------------------------------------------------------
(* The methods of ChessGame, as functions from state to state. *)

Files == "abcdefgh"

\* String.prototype.substring(a, b), for 0 <= a <= b.
Substring(str, a, b) ==
  LET n == Len(str)
      lo == IF a > n THEN n ELSE a
      hi == IF b > n THEN n ELSE b
  IN SubSeq(str, lo + 1, hi)

\* parsePosition(notation): the Position, or None when it throws.  A first
\* character that is not a file letter gives a column outside 0..7; a second
\* character that is not a digit gives the row NaN, which passes the test of
\* the bounds.
parsePosition(notation) ==
  IF Len(notation) # 2 THEN None
  ELSE LET file == {i \in 1..8 : Ch(Files, i) = Ch(notation, 1)}
           rank == ParseInt(Some(Ch(notation, 2)))
       IN IF file = {} THEN None
          ELSE LET col == (CHOOSE i \in file : TRUE) - 1
               IN IF rank = None THEN Some([row |-> None, col |-> col])
                  ELSE IF 8 - Val(rank) \notin OnBoard THEN None
                  ELSE Some([row |-> Some(8 - Val(rank)), col |-> col])

\* pieceToFenChar(piece)
pieceToFenChar(piece) ==
  LET chars == [pawn |-> <<"p", "P">>, rook |-> <<"r", "R">>, knight |-> <<"n", "N">>,
                bishop |-> <<"b", "B">>, queen |-> <<"q", "Q">>, king |-> <<"k", "K">>]
      char == IF piece.type \in DOMAIN chars THEN chars[piece.type] ELSE chars["pawn"]
  IN IF piece.color = WHITE THEN char[2] ELSE char[1]

\* The part of the FEN of one row from column col on, after emptyCount empty
\* squares.
RECURSIVE FenRow(_, _, _, _)
FenRow(board, row, col, emptyCount) ==
  LET count == IF emptyCount > 0 THEN ToStr(emptyCount) ELSE ""
  IN IF col > 7 THEN count
     ELSE IF <<row, col>> \in DOMAIN board
     THEN count \o pieceToFenChar(board[<<row, col>>]) \o FenRow(board, row, col + 1, 0)
     ELSE FenRow(board, row, col + 1, emptyCount + 1)

RECURSIVE FenRows(_, _)
FenRows(board, row) ==
  FenRow(board, row, 0, 0) \o (IF row < 7 THEN "/" \o FenRows(board, row + 1) ELSE "")

\* boardToFen(gameState)
boardToFen(state) ==
  FenRows(state.board, 0) \o " " \o (IF state.currentTurn = WHITE THEN "w" ELSE "b")
    \o " KQkq" \o " -" \o " 0 1"

\* A MoveResult that a call has returned.
MoveResult(move, isValid) == Some([move |-> move, isValid |-> isValid])

\* No makeEngineMove() awaits the engine.
NoEngineCall == [req |-> 0, loop |-> FALSE]

\* initialize() up to the await of engine.start().
initialize(s, spawned) ==
  LET s1 == start(s, "caller", spawned)
  IN [s1 EXCEPT !.game.initCall = Len(s1.starts)]

\* initialize() entering the game whatever became of start().
initializeResumeAlwaysPlaying(s) ==
  [s EXCEPT !.game.gameState = "playing", !.game.initCall = 0]

\* initialize() after start() has settled: the game is entered, or the error
\* is thrown to the caller.
initializeResume(s) ==
  IF s.starts[s.game.initCall].st = "resolved"
  THEN [s EXCEPT !.game.gameState = "playing", !.game.initCall = 0]
  ELSE [s EXCEPT !.game.initCall = 0]

\* makePlayerMove(from, to) that keeps no history.
makePlayerMoveNoHistory(s, from, to) ==
  LET notation == from \o "-" \o to
      invalid == [s EXCEPT !.game.result = MoveResult(notation, FALSE)]
      fromPos == parsePosition(from)
      toPos == parsePosition(to)
  IN IF s.game.gameState # "playing" THEN invalid
     ELSE IF fromPos = None \/ toPos = None THEN invalid
     ELSE IF Val(toPos) \notin getLegalMoves(Val(fromPos), s.game.coreGameState) THEN invalid
     ELSE LET newGameState == movePiece(Val(fromPos), Val(toPos), s.game.coreGameState)
          IN IF newGameState = None THEN invalid
             ELSE [s EXCEPT !.game.coreGameState = Val(newGameState),
                            !.game.result = MoveResult(notation, TRUE)]

\* makePlayerMove(from, to) without the test of the game state.
makePlayerMoveAnyState(s, from, to) ==
  LET notation == from \o "-" \o to
      invalid == [s EXCEPT !.game.result = MoveResult(notation, FALSE)]
      fromPos == parsePosition(from)
      toPos == parsePosition(to)
  IN IF fromPos = None \/ toPos = None THEN invalid
     ELSE IF Val(toPos) \notin getLegalMoves(Val(fromPos), s.game.coreGameState) THEN invalid
     ELSE LET newGameState == movePiece(Val(fromPos), Val(toPos), s.game.coreGameState)
          IN IF newGameState = None THEN invalid
             ELSE [s EXCEPT !.game.coreGameState = Val(newGameState),
                            !.game.moveHistory = Append(@, notation),
                            !.game.result = MoveResult(notation, TRUE)]

\* makePlayerMove(from, to): an exception of parsePosition is caught.
makePlayerMove(s, from, to) ==
  LET notation == from \o "-" \o to
      invalid == [s EXCEPT !.game.result = MoveResult(notation, FALSE)]
      fromPos == parsePosition(from)
      toPos == parsePosition(to)
  IN IF s.game.gameState # "playing" THEN invalid
     ELSE IF fromPos = None \/ toPos = None THEN invalid
     ELSE IF Val(toPos) \notin getLegalMoves(Val(fromPos), s.game.coreGameState) THEN invalid
     ELSE LET newGameState == movePiece(Val(fromPos), Val(toPos), s.game.coreGameState)
          IN IF newGameState = None THEN invalid
             ELSE [s EXCEPT !.game.coreGameState = Val(newGameState),
                            !.game.moveHistory = Append(@, notation),
                            !.game.result = MoveResult(notation, TRUE)]

\* endGame()
endGame(s) == stop([s EXCEPT !.game.gameState = "ended"])

\* makeEngineMove() up to the await of engine.getBestMove(fen); loop tells
\* that the game loop of the command line made the call.
makeEngineMove(s, loop) ==
  IF s.game.gameState # "playing" \/ s.game.coreGameState.currentTurn # BLACK
  THEN [s EXCEPT !.game.result = MoveResult("", FALSE)]
  ELSE LET s1 == getBestMove(s, boardToFen(s.game.coreGameState), None)
       IN [s1 EXCEPT !.game.engineCall = [req |-> Len(s1.reqs), loop |-> loop]]

\* The game loop of the command line after makeEngineMove() has returned:
\* a result that is not valid ends the game.
gameLoop(s, loop) ==
  IF loop /\ ~Val(s.game.result).isValid THEN endGame(s) ELSE s

\* makeEngineMove() recording in the history a move that was not applied.
makeEngineMoveResumeRecordsAll(s) ==
  LET call == s.game.engineCall
      req == s.reqs[call.req]
      invalid == [s EXCEPT !.game.result = MoveResult("", FALSE),
                           !.game.engineCall = NoEngineCall]
      rejected == [invalid EXCEPT !.game.moveHistory =
                     IF TruthyStr(req.move) /\ req.move # Some("(none)")
                     THEN Append(@, Val(req.move)) ELSE @]
      s1 == IF req.st = "rejected" THEN invalid
            ELSE IF ~TruthyStr(req.move) \/ req.move = Some("(none)") THEN invalid
            ELSE LET engineMove == Val(req.move)
                     fromPos == parsePosition(Substring(engineMove, 0, 2))
                     toPos == parsePosition(Substring(engineMove, 2, 4))
                 IN IF fromPos = None \/ toPos = None THEN rejected
                    ELSE LET newGameState == movePiece(Val(fromPos), Val(toPos),
                                                       s.game.coreGameState)
                         IN IF newGameState = None THEN rejected
                            ELSE [s EXCEPT !.game.coreGameState = Val(newGameState),
                                           !.game.moveHistory = Append(@, engineMove),
                                           !.game.result = MoveResult(engineMove, TRUE),
                                           !.game.engineCall = NoEngineCall]
  IN gameLoop(s1, call.loop)

\* makeEngineMove() after getBestMove() has settled, then the game loop, which
\* ends the game after a result that is not valid.
makeEngineMoveResume(s) ==
  LET call == s.game.engineCall
      req == s.reqs[call.req]
      invalid == [s EXCEPT !.game.result = MoveResult("", FALSE),
                           !.game.engineCall = NoEngineCall]
      s1 == IF req.st = "rejected" THEN invalid
            ELSE IF ~TruthyStr(req.move) \/ req.move = Some("(none)") THEN invalid
            ELSE LET engineMove == Val(req.move)
                     fromPos == parsePosition(Substring(engineMove, 0, 2))
                     toPos == parsePosition(Substring(engineMove, 2, 4))
                 IN IF fromPos = None \/ toPos = None THEN invalid
                    ELSE LET newGameState == movePiece(Val(fromPos), Val(toPos),
                                                       s.game.coreGameState)
                         IN IF newGameState = None THEN invalid
                            ELSE [s EXCEPT !.game.coreGameState = Val(newGameState),
                                           !.game.moveHistory = Append(@, engineMove),
                                           !.game.result = MoveResult(engineMove, TRUE),
                                           !.game.engineCall = NoEngineCall]
  IN gameLoop(s1, call.loop)

\* initialize() resumes when its start() has settled.
initializeSettled(s) ==
  IF s.game.initCall # 0 /\ s.starts[s.game.initCall].st # "pending"
  THEN initializeResume(s)
  ELSE s

\* makeEngineMove() resumes when its getBestMove() has settled.
makeEngineMoveSettled(s) ==
  IF s.game.engineCall.req # 0
     /\ s.reqs[s.game.engineCall.req].st \in {"resolved", "rejected"}
  THEN makeEngineMoveResume(s)
  ELSE s

\* The continuations of the game layer that the settling of a promise of the
\* engine has made runnable.
GameMicrotasks(s) ==
  IF s.thrown THEN s ELSE makeEngineMoveSettled(initializeSettled(s))

\* The variables take their values in state t.
Become(t) ==
  /\ config' = t.config
  /\ process' = t.process
  /\ isReady' = t.isReady
  /\ isRestarting' = t.isRestarting
  /\ options' = t.options
  /\ procs' = t.procs
  /\ starts' = t.starts
  /\ reqs' = t.reqs
  /\ readyL' = t.readyL
  /\ bestL' = t.bestL
  /\ timers' = t.timers
  /\ restart' = t.restart
  /\ restartFailed' = t.restartFailed
  /\ autoRestarts' = t.autoRestarts
  /\ crashed' = (t.crashed \/ t.thrown)
  /\ gameState' = t.game.gameState
  /\ coreGameState' = t.game.coreGameState
  /\ moveHistory' = t.game.moveHistory
  /\ initCall' = t.game.initCall
  /\ engineCall' = t.game.engineCall
  /\ result' = t.game.result

\* A callback has returned in state s: the continuations of the game layer
\* run, and the result is the next state.  An exception that no catch has
\* handled is an uncaught exception of the node process.
Commit(s) == \E t \in {GameMicrotasks(s)} : Become(t)

-----------------------------------------------------------------------------
(* The inputs: configurations, calls of the game layer, output of the engine. *)

\* The positions that getBestMove() is called with.
Positions == {"8/8/8/8/8/8/8/8 w - - 0 1"}

\* The exit codes of a subprocess; None stands for null (ended by a signal).
ExitCodes == {Some(0), Some(1), None}

\* The life cycle: start, crash, restart, stop, one search.
LifecycleEnv ==
  [maxProcs |-> MaxProcs, maxStarts |-> MaxStarts, maxReqs |-> MaxReqs,
   maxIsready |-> MaxIsready,
   configs |-> [timeLimit : {Some(3000)}, depth : {None}, skillLevel : {Some(8)}],
   timeLimits |-> {None},
   data |-> {"uciok\n", "readyok\n", "bestmove e2e4 ponder e7e5\n",
             "info depth 1 score cp 20\n", "Stockfish 16 by the Stockfish developers\n"}]

\* The search: every configuration of time limit and depth, two calls.
SearchEnv ==
  [maxProcs |-> SearchMaxProcs, maxStarts |-> SearchMaxStarts, maxReqs |-> SearchMaxReqs,
   maxIsready |-> MaxIsready,
   configs |-> [timeLimit : {None, Some(3000)}, depth : {None, Some(12)},
                skillLevel : {Some(8)}],
   timeLimits |-> {None, Some(2000)},
   data |-> {"uciok\n", "readyok\n", "bestmove e2e4 ponder e7e5\n", "bestmove d7d5\n"}]

\* The handshake with option lines, well-formed and not, and every skill level.
OptionsEnv ==
  [maxProcs |-> OptionsMaxProcs, maxStarts |-> OptionsMaxStarts, maxReqs |-> OptionsMaxReqs,
   maxIsready |-> MaxIsready,
   configs |-> [timeLimit : {Some(3000)}, depth : {None},
                skillLevel : {None, Some(8), Some(20)}],
   timeLimits |-> {None},
   data |-> {"uciok\n", "readyok\n",
             "option name Skill Level type spin default 20 min 0 max 20\n",
             "option name UCI_LimitStrength type check default false\n",
             "option name Skill Level\n",
             "option name Hash type\n",
             "option name type spin\n"}]

\* The handshake with well-formed option lines of each shape: a name of two
\* words with a default and a range, a name of one word, choices.
ParseEnv ==
  [maxProcs |-> OptionsMaxProcs, maxStarts |-> OptionsMaxStarts, maxReqs |-> OptionsMaxReqs,
   maxIsready |-> MaxIsready,
   configs |-> [timeLimit : {Some(3000)}, depth : {None}, skillLevel : {Some(8)}],
   timeLimits |-> {None},
   data |-> {"uciok\n", "readyok\n",
             "option name Skill Level type spin default 20 min 0 max 20\n",
             "option name UCI_LimitStrength type check default false\n",
             "option name Analysis Contempt type combo default Both var Off var White var Both\n"}]

\* The output of the engine during a handshake and a search, as one stream.
Streams == {"uciok\nreadyok\n", "bestmove e2e4\n"}

\* The two chunks that a stream arrives in when the pipe delivers it in two
\* reads, the first of i characters.
SplitAt(stream, i) == <<SubSeq(stream, 1, i), SubSeq(stream, i + 1, Len(stream))>>

\* The ways of splitting a stream in two chunks.
Splits(stream) == {SplitAt(stream, i) : i \in 1..(Len(stream) - 1)}

\* The chunks: the streams whole, and the two parts of each of their splits.
ChunksEnv ==
  [maxProcs |-> OptionsMaxProcs, maxStarts |-> OptionsMaxStarts, maxReqs |-> OptionsMaxReqs,
   maxIsready |-> MaxIsready,
   configs |-> [timeLimit : {Some(3000)}, depth : {None}, skillLevel : {Some(8)}],
   timeLimits |-> {None},
   data |-> Streams \cup UNION {{c[1], c[2]} : c \in UNION {Splits(stream) : stream \in Streams}}]

Count(seq, x) == Cardinality({i \in DOMAIN seq : seq[i] = x})

-----------------------------------------------------------------------------
(* The actions: one per callback of the event loop, in an environment env. *)

InitOf(env) ==
  /\ config \in env.configs
  /\ process = 0
  /\ isReady = FALSE
  /\ isRestarting = FALSE
  /\ options = EmptyMap
  /\ procs = <<>>
  /\ starts = <<>>
  /\ reqs = <<>>
  /\ readyL = <<>>
  /\ bestL = <<>>
  /\ timers = <<>>
  /\ restart = NoRestart
  /\ restartFailed = 0
  /\ autoRestarts = 0
  /\ crashed = FALSE
  /\ gameState = "setup"
  /\ coreGameState = initGameState
  /\ moveHistory = <<>>
  /\ initCall = 0
  /\ engineCall = NoEngineCall
  /\ result = None

\* The game layer calls start(): when the engine is not ready and no start()
\* is pending.
CallStart(env) ==
  /\ ~crashed
  /\ ~isReady
  /\ \A k \in DOMAIN starts : starts[k].st # "pending"
  /\ Len(starts) < env.maxStarts
  /\ \E spawned \in BOOLEAN :
       /\ spawned => Len(procs) < env.maxProcs
       /\ Commit(Microtasks(start(State, "caller", spawned)))

\* The step of a call getBestMove(position, timeLimit).
GetBestMoveCall(position, timeLimit) ==
  Commit(Microtasks(getBestMove(State, position, timeLimit)))

\* The game layer calls getBestMove(position, timeLimit).
CallGetBestMove(env) ==
  /\ ~crashed
  /\ Len(reqs) < env.maxReqs
  /\ \E position \in Positions, timeLimit \in env.timeLimits :
       GetBestMoveCall(position, timeLimit)

\* The game layer calls stop().
CallStop ==
  /\ ~crashed
  /\ Commit(Microtasks(stop(State)))

\* Subprocess p writes a chunk of output; a killed subprocess may still write
\* until it exits.
EngineData(env, p, data) ==
  /\ ~crashed
  /\ p \in DOMAIN procs
  /\ procs[p].status \in {"alive", "killed"}
  /\ LET s == Microtasks(onData(State, data))
     IN /\ \A q \in DOMAIN s.procs : Count(s.procs[q].stdin, "isready\n") <= env.maxIsready
        /\ Commit(s)

\* Subprocess p exits.
ProcExit(p, code) ==
  /\ ~crashed
  /\ p \in DOMAIN procs
  /\ procs[p].status \in {"alive", "killed"}
  /\ Commit(Microtasks(onExit(State, p, code)))

\* The ten-second timer of a start() fires.
InitTimer(i) ==
  /\ ~crashed
  /\ CanFire(i)
  /\ timers[i].kind = "init"
  /\ Commit(Microtasks(initTimeout([State EXCEPT !.timers = RemoveAt(@, i)], timers[i].id)))

\* The one-second timer of attemptRestart() fires.
RestartTimer(env, i) ==
  /\ ~crashed
  /\ CanFire(i)
  /\ timers[i].kind = "restart"
  /\ Len(starts) < env.maxStarts
  /\ \E spawned \in BOOLEAN :
       /\ spawned => Len(procs) < env.maxProcs
       /\ Commit(Microtasks(restartDelayElapsed([State EXCEPT !.timers = RemoveAt(@, i)],
                                                spawned)))

\* The timer of a getBestMove() fires.
SearchTimer(i) ==
  /\ ~crashed
  /\ CanFire(i)
  /\ timers[i].kind = "search"
  /\ Commit(Microtasks(searchTimeout([State EXCEPT !.timers = RemoveAt(@, i)], timers[i].id)))

NextOf(env) ==
  \/ CallStart(env)
  \/ CallGetBestMove(env)
  \/ CallStop
  \/ \E p \in DOMAIN procs, data \in env.data : EngineData(env, p, data)
  \/ \E p \in DOMAIN procs, code \in ExitCodes : ProcExit(p, code)
  \/ \E i \in DOMAIN timers : InitTimer(i)
  \/ \E i \in DOMAIN timers : RestartTimer(env, i)
  \/ \E i \in DOMAIN timers : SearchTimer(i)

Init == InitOf(LifecycleEnv)
Next == NextOf(LifecycleEnv)
Spec == Init /\ [][Next]_vars

InitSearch == InitOf(SearchEnv)
NextSearch == NextOf(SearchEnv)
SpecSearch == InitSearch /\ [][NextSearch]_vars

InitOptions == InitOf(OptionsEnv)
NextOptions == NextOf(OptionsEnv)
SpecOptions == InitOptions /\ [][NextOptions]_vars

InitParse == InitOf(ParseEnv)
NextParse == NextOf(ParseEnv)
SpecParse == InitParse /\ [][NextParse]_vars

InitChunks == InitOf(ChunksEnv)
NextChunks == NextOf(ChunksEnv)
SpecChunks == InitChunks /\ [][NextChunks]_vars

\* The calls followed until they settle: one start() of the caller, then the
\* restarts that exits and a getBestMove() begin, each of which can call
\* start() once more.
SettleEnv ==
  [maxProcs |-> SettleMaxProcs,
   maxStarts |-> SettleMaxCalls + SettleMaxProcs + SettleMaxReqs,
   maxReqs |-> SettleMaxReqs, maxIsready |-> MaxIsready,
   configs |-> [timeLimit : {Some(3000)}, depth : {None}, skillLevel : {Some(8)}],
   timeLimits |-> {None},
   data |-> {"uciok\n", "readyok\n", "bestmove e2e4\n"}]

\* The start() calls of the caller.
CallerStarts == {k \in DOMAIN starts : starts[k].by = "caller"}

\* The game layer calls start(), SettleMaxCalls times at most.
CallStartSettle ==
  /\ Cardinality(CallerStarts) < SettleMaxCalls
  /\ CallStart(SettleEnv)

\* An armed timer fires.
TimerFires ==
  \E i \in DOMAIN timers :
    InitTimer(i) \/ RestartTimer(SettleEnv, i) \/ SearchTimer(i)

InitSettle == InitOf(SettleEnv)

NextSettle ==
  \/ CallStartSettle
  \/ CallGetBestMove(SettleEnv)
  \/ CallStop
  \/ \E p \in DOMAIN procs, data \in SettleEnv.data : EngineData(SettleEnv, p, data)
  \/ \E p \in DOMAIN procs, code \in ExitCodes : ProcExit(p, code)
  \/ TimerFires

\* The event loop of node runs the callback of every timer that is armed; the
\* subprocess and the caller are free to do nothing.
SpecSettle == InitSettle /\ [][NextSettle]_vars /\ WF_vars(TimerFires)

-----------------------------------------------------------------------------
(* The actions of a game: the calls of the command line and of the tests. *)

\* One game: the engine answers a search with a move of black that the board
\* allows, with a move that it does not allow, with `(none)`, with no move,
\* or with half a move.
GameEnv ==
  [maxProcs |-> GameMaxProcs, maxStarts |-> GameMaxStarts, maxReqs |-> GameMaxReqs,
   maxIsready |-> MaxIsready,
   configs |-> [timeLimit : {Some(3000)}, depth : {None}, skillLevel : {Some(8)}],
   timeLimits |-> {None},
   data |-> {"uciok\n", "readyok\n", "bestmove e7e5\n", "bestmove e2e4\n",
             "bestmove (none)\n", "bestmove\n", "bestmove e7\n"}]

\* The moves that the player enters: legal for white, legal for black, to a
\* square the pawn cannot reach, from a square outside the board, with a
\* square of one character, with a rank that is no digit.
PlayerMoves ==
  {<<"e2", "e4">>, <<"e7", "e5">>, <<"e2", "e5">>, <<"e9", "e4">>, <<"e2", "e">>,
   <<"e2", "ex">>}

\* The command line calls initialize(), once, on a new game.
GameInitialize(env) ==
  /\ ~crashed
  /\ gameState = "setup"
  /\ initCall = 0
  /\ CallerStarts = {}
  /\ Len(starts) < env.maxStarts
  /\ \E spawned \in BOOLEAN :
       /\ spawned => Len(procs) < env.maxProcs
       /\ Commit(Microtasks(initialize(State, spawned)))

\* makePlayerMove(from, to) is called.
PlayerMove(from, to) ==
  /\ ~crashed
  /\ Commit(Microtasks(makePlayerMove(State, from, to)))

\* makeEngineMove() is called: by the game loop, when the game is played and
\* it is not the turn of the player, or by another caller, in any state.
EngineMove(env, loop) ==
  /\ ~crashed
  /\ engineCall = NoEngineCall
  /\ Len(reqs) < env.maxReqs
  /\ loop => (gameState = "playing" /\ coreGameState.currentTurn # WHITE)
  /\ Commit(Microtasks(makeEngineMove(State, loop)))

\* endGame() is called.
EndGame ==
  /\ ~crashed
  /\ Commit(Microtasks(endGame(State)))

InitGame == InitOf(GameEnv)

NextGame ==
  \/ GameInitialize(GameEnv)
  \/ \E move \in PlayerMoves : PlayerMove(move[1], move[2])
  \/ \E loop \in BOOLEAN : EngineMove(GameEnv, loop)
  \/ EndGame
  \/ \E p \in DOMAIN procs, data \in GameEnv.data : EngineData(GameEnv, p, data)
  \/ \E p \in DOMAIN procs, code \in ExitCodes : ProcExit(p, code)
  \/ \E i \in DOMAIN timers : InitTimer(i)
  \/ \E i \in DOMAIN timers : RestartTimer(GameEnv, i)
  \/ \E i \in DOMAIN timers : SearchTimer(i)

SpecGame == InitGame /\ [][NextGame]_vars

-----------------------------------------------------------------------------
(* The handshake. *)

\* Subprocess p is the one the supervisor holds the handle of.
Current(p) == process # 0 /\ p = process

\* The start() invocations whose 'ready' listener is registered and whose
\* promise is pending.
PendingStarts == {k \in DOMAIN starts : starts[k].st = "pending" /\ Count(readyL, k) > 0}

\* C1: in a handshake with the subprocess that start() launched, a `uciok`
\* line makes the supervisor send `isready` exactly once, to that subprocess,
\* and changes neither the readiness nor any start() promise; a `readyok` line
\* makes the supervisor ready and resolves every pending start(); the
\* supervisor becomes ready only on a `readyok` line, a start() is resolved
\* only on a `readyok` line, and a resolved start() stays resolved.
C1_Handshake ==
  [][ /\ \A p \in DOMAIN procs :
           /\ (Current(p) /\ EngineData(LifecycleEnv, p, "uciok\n"))
                => /\ procs'[p].stdin = Append(procs[p].stdin, "isready\n")
                   /\ \A q \in DOMAIN procs \ {p} : procs'[q] = procs[q]
                   /\ isReady' = isReady
                   /\ starts' = starts
           /\ (Current(p) /\ EngineData(LifecycleEnv, p, "readyok\n"))
                => /\ isReady'
                   /\ \A k \in PendingStarts : starts'[k].st = "resolved"
                   /\ ~crashed'
      /\ (~isReady /\ isReady')
           => \E p \in DOMAIN procs : EngineData(LifecycleEnv, p, "readyok\n")
      /\ \A k \in DOMAIN starts :
           /\ (starts[k].st = "pending" /\ starts'[k].st = "resolved")
                => \E p \in DOMAIN procs : EngineData(LifecycleEnv, p, "readyok\n")
           /\ starts[k].st = "resolved" => starts'[k].st = "resolved"
    ]_vars

\* A start() whose subprocess answered `uci` with `uciok` and `isready` with
\* `readyok`: the supervisor is ready and the start() is resolved.
C1_Witness ==
  \E k \in DOMAIN starts :
    /\ starts[k].st = "resolved"
    /\ starts[k].pid = process
    /\ isReady
    /\ procs[process].stdin = <<"uci\n", "isready\n">>

-----------------------------------------------------------------------------
(* The search. *)

\* The supervisor is ready: the handshake is complete and it holds a handle.
Ready == isReady /\ process # 0

\* The token of a line between its first space and its second (or its end).
SecondToken(line) ==
  LET a == IndexOf(line, " ", 1)
      b == IF a = 0 THEN 0 ELSE IndexOf(line, " ", a + 1)
  IN IF a = 0 THEN None
     ELSE IF b = 0 THEN Some(SubSeq(line, a + 1, Len(line)))
     ELSE Some(SubSeq(line, a + 1, b - 1))

\* The chunks of the search environment that are one `bestmove` line.
BestmoveData == {d \in SearchEnv.data : StartsWith(d, "bestmove")}

\* The getBestMove() calls that wait for a `bestmove` line.
Waiting == {r \in DOMAIN reqs : reqs[r].st = "waiting" /\ Count(bestL, r) > 0}

\* C2: a getBestMove() issued while the supervisor is ready writes exactly the
\* line `position fen <position>` and then one `go ...` line to the subprocess,
\* and nothing to any other; a `bestmove` line resolves every waiting call with
\* the token between its first and its second space; a call is resolved only
\* by a `bestmove` line, and once resolved it keeps its move.
C2_SearchCycle ==
  [][ /\ \A position \in Positions, timeLimit \in SearchEnv.timeLimits :
           (Ready /\ GetBestMoveCall(position, timeLimit))
             => /\ Len(procs'[process].stdin) = Len(procs[process].stdin) + 2
                /\ SubSeq(procs'[process].stdin, 1, Len(procs[process].stdin))
                     = procs[process].stdin
                /\ procs'[process].stdin[Len(procs[process].stdin) + 1]
                     = "position fen " \o position \o "\n"
                /\ StartsWith(procs'[process].stdin[Len(procs[process].stdin) + 2], "go ")
                /\ \A q \in DOMAIN procs \ {process} : procs'[q] = procs[q]
                /\ reqs'[Len(reqs')].st = "waiting"
      /\ \A p \in DOMAIN procs, data \in BestmoveData :
           EngineData(SearchEnv, p, data)
             => \A r \in Waiting :
                  /\ reqs'[r].st = "resolved"
                  /\ reqs'[r].move = SecondToken(Trim(data))
      /\ \A r \in DOMAIN reqs :
           /\ (reqs[r].st # "resolved" /\ reqs'[r].st = "resolved")
                => \E p \in DOMAIN procs, data \in BestmoveData :
                     EngineData(SearchEnv, p, data)
           /\ reqs[r].st = "resolved" => reqs'[r] = reqs[r]
    ]_vars

\* A call issued while ready that a `bestmove e2e4 ponder e7e5` line resolved.
C2_Witness ==
  \E r \in DOMAIN reqs :
    /\ reqs[r].st = "resolved"
    /\ reqs[r].move = Some("e2e4")
    /\ process # 0
    /\ \E i \in DOMAIN procs[process].stdin :
         /\ procs[process].stdin[i] = "position fen " \o reqs[r].position \o "\n"
         /\ i < Len(procs[process].stdin)
         /\ StartsWith(procs[process].stdin[i + 1], "go ")

\* The time budget of a call: the time limit of the call, else the time
\* limit of the configuration, else five seconds.
Budget(timeLimit) ==
  IF IsSome(timeLimit) THEN Val(timeLimit)
  ELSE IF IsSome(config.timeLimit) THEN Val(config.timeLimit)
  ELSE 5000

\* The armed timers of getBestMove() number r.
SearchTimers(r) == {i \in DOMAIN timers : timers[i].kind = "search" /\ timers[i].id = r}

\* C3: a call that waits for its `bestmove` line has exactly one timer armed,
\* of its time budget plus 1000 ms; when that timer fires the call is rejected
\* with the timeout error; and a call that was rejected stays rejected and
\* delivers no move, whatever line arrives later.
C3_SearchTimeout ==
  /\ [](\A r \in DOMAIN reqs :
          /\ reqs[r].st = "waiting" => Cardinality(SearchTimers(r)) = 1
          /\ \A i \in SearchTimers(r) : timers[i].ms = Budget(reqs[r].timeLimit) + 1000)
  /\ [][ /\ \A i \in DOMAIN timers :
              (SearchTimer(i) /\ reqs[timers[i].id].st = "waiting")
                => /\ reqs'[timers[i].id].st = "rejected"
                   /\ reqs'[timers[i].id].err = "timeout"
                   /\ reqs'[timers[i].id].move = None
         /\ \A r \in DOMAIN reqs :
              reqs[r].st = "rejected" => reqs'[r] = reqs[r]
       ]_vars

\* A call that timed out, and whose listener a later `bestmove` line has run.
C3_Witness ==
  \E r \in DOMAIN reqs :
    /\ reqs[r].st = "rejected"
    /\ reqs[r].err = "timeout"
    /\ reqs[r].move = None
    /\ Count(bestL, r) = 0

\* C4: at most one getBestMove() call waits for a `bestmove` line.
C4_OneOutstanding == Cardinality(Waiting) <= 1

\* The search command that the precedence of depth, time limit of the call,
\* time limit of the configuration and fallback depth gives.
ExpectedGo(timeLimit) ==
  IF IsSome(config.depth) THEN "go depth " \o ToStr(Val(config.depth))
  ELSE IF IsSome(timeLimit) THEN "go movetime " \o ToStr(Val(timeLimit))
  ELSE IF IsSome(config.timeLimit) THEN "go movetime " \o ToStr(Val(config.timeLimit))
  ELSE "go depth 10"

\* C9: whenever a getBestMove() call has sent its commands to the subprocess,
\* the last of them is the search command that the precedence gives: the
\* configured depth, else the time limit of the call, else the time limit of
\* the configuration, else depth 10.
C9_GoPrecedence ==
  [][ \A r \in DOMAIN reqs' :
        ( /\ reqs'[r].st = "waiting"
          /\ (r \in DOMAIN reqs => reqs[r].st # "waiting") )
          => /\ process' # 0
             /\ procs'[process'].stdin[Len(procs'[process'].stdin)]
                  = ExpectedGo(reqs'[r].timeLimit) \o "\n"
    ]_vars

\* A depth is configured, and a call with a time limit of its own, under a
\* configured time limit, has sent `go depth`.
C9_Witness ==
  /\ config.depth = Some(12)
  /\ config.timeLimit = Some(3000)
  /\ \E r \in DOMAIN reqs :
       /\ reqs[r].timeLimit = Some(2000)
       /\ reqs[r].st = "waiting"
       /\ process # 0
       /\ procs[process].stdin[Len(procs[process].stdin)] = "go depth 12\n"

-----------------------------------------------------------------------------
(* Exit, restart and stop. *)

\* The armed timers of attemptRestart().
RestartTimers == {i \in DOMAIN timers : timers[i].kind = "restart"}

\* stop() has been called on subprocess p: it was sent `quit`.
Stopped(p) == Count(procs[p].stdin, "quit\n") > 0

\* C5: when the subprocess of a ready supervisor, with no restart in progress
\* and no stop() requested, exits with a code other than 0, the supervisor
\* becomes not ready and begins one automatic restart: one timer of 1000 ms is
\* armed, and never is more than one armed; when the timer fires start() is
\* invoked once; when the handshake of that start() completes, on a subprocess
\* that was not stopped, the supervisor is ready again with no restart in
\* progress and no `restart-failed` event; and a getBestMove() issued while
\* ready is not rejected: it sends its commands and waits for its move.
C5_AutoRestart ==
  /\ [](Cardinality(RestartTimers) <= 1)
  /\ [][ /\ \A p \in DOMAIN procs, code \in ExitCodes \ {Some(0)} :
              (Current(p) /\ isReady /\ ~isRestarting /\ ProcExit(p, code))
                => /\ ~isReady'
                   /\ isRestarting'
                   /\ autoRestarts' = autoRestarts + 1
                   /\ restart' = [pc |-> "delay", start |-> 0, req |-> 0]
                   /\ Cardinality(RestartTimers') = 1
                   /\ \A i \in RestartTimers' : timers'[i].ms = 1000
                   /\ starts' = starts
         /\ \A i \in DOMAIN timers :
              RestartTimer(LifecycleEnv, i)
                => /\ Len(starts') = Len(starts) + 1
                   /\ starts'[Len(starts')].by = "restart"
                   /\ RestartTimers' = {}
         /\ \A p \in DOMAIN procs :
              ( /\ EngineData(LifecycleEnv, p, "readyok\n")
                /\ Current(p) /\ ~Stopped(p)
                /\ restart.pc = "handshake" /\ starts[restart.start].pid = p )
                => /\ isReady' /\ ~isRestarting' /\ process' = p
                   /\ starts'[restart.start].st = "resolved"
                   /\ restartFailed' = restartFailed
                   /\ restart' = NoRestart
         /\ \A position \in Positions :
              (Ready /\ GetBestMoveCall(position, None))
                => /\ reqs'[Len(reqs')].st = "waiting"
                   /\ Len(procs'[process].stdin) = Len(procs[process].stdin) + 2
       ]_vars

\* After one exit announced as a restart, the restarted subprocess has
\* completed its handshake and has answered a getBestMove() call.
C5_Witness ==
  /\ autoRestarts = 1
  /\ restartFailed = 0
  /\ restart = NoRestart
  /\ Len(starts) = 2
  /\ starts[1].st = "resolved"
  /\ procs[starts[1].pid].status = "exited"
  /\ starts[2].by = "restart"
  /\ starts[2].st = "resolved"
  /\ process = starts[2].pid
  /\ \E r \in DOMAIN reqs :
       /\ reqs[r].st = "resolved"
       /\ procs[process].stdin
            = <<"uci\n", "isready\n", "position fen " \o reqs[r].position \o "\n",
                "go movetime 3000\n">>

\* C6: the exit of a subprocess that stop() has stopped, with any exit code,
\* begins no automatic restart.
C6_NoRestartAfterStop ==
  [][ \A p \in DOMAIN procs, code \in ExitCodes :
        (Stopped(p) /\ ProcExit(p, code))
          => /\ autoRestarts' = autoRestarts
             /\ restart' = restart
             /\ RestartTimers' = RestartTimers
    ]_vars

\* C7: stop() on a supervisor that holds a live subprocess sends it `quit`,
\* kills it, and leaves no process handle and no readiness; and a stop() called
\* after an earlier stop(), on a supervisor that holds no subprocess and is not
\* ready, sends nothing, throws nothing and changes nothing.
C7_Stop ==
  [][ /\ \A p \in DOMAIN procs :
           (Current(p) /\ procs[p].status = "alive" /\ CallStop)
             => /\ procs'[p] = [status |-> "killed",
                                stdin |-> Append(procs[p].stdin, "quit\n")]
                /\ \A q \in DOMAIN procs \ {p} : procs'[q] = procs[q]
                /\ process' = 0
                /\ ~isReady'
                /\ ~crashed'
      /\ ( /\ \E p \in DOMAIN procs : Stopped(p)
           /\ process = 0 /\ ~isReady
           /\ CallStop )
           => UNCHANGED vars
    ]_vars

\* The position and go commands on the standard input of the subprocesses.
SearchCommands(ps) ==
  UNION {{<<p, i>> : i \in {j \in DOMAIN ps[p].stdin :
                                \/ StartsWith(ps[p].stdin[j], "position ")
                                \/ StartsWith(ps[p].stdin[j], "go ")}}
         : p \in DOMAIN ps}

\* C8: a getBestMove() called while the supervisor is not ready begins one
\* restart cycle, which the call awaits; and when that cycle ends with the
\* supervisor still not ready the call is rejected, no position or go command
\* having been sent.
C8_RestartWhenNotReady ==
  [][ /\ \A position \in Positions :
           (~isReady /\ GetBestMoveCall(position, None))
             => /\ restart' = [pc |-> "delay", start |-> 0, req |-> Len(reqs')]
                /\ reqs'[Len(reqs')].st = "restarting"
                /\ Cardinality(RestartTimers') = Cardinality(RestartTimers) + 1
                /\ procs' = procs
      /\ \A r \in DOMAIN reqs :
           (reqs[r].st = "restarting" /\ reqs'[r].st # "restarting" /\ ~isReady')
             => /\ reqs'[r].st = "rejected"
                /\ reqs'[r].err = "not ready"
                /\ SearchCommands(procs') = SearchCommands(procs)
    ]_vars

-----------------------------------------------------------------------------
(* The option table. *)

\* The `option name ...` lines that the engine writes.
OptionLines == {Trim(d) : d \in {x \in OptionsEnv.data : StartsWith(x, "option name")}}

\* The positions, in the tokens of a line, of a `type` token that follows at
\* least one token of a name and that a token naming the kind follows.
TypeTokens(parts) == {t \in 4..(Len(parts) - 1) : parts[t] = "type"}

\* The line carries both a name and a `type <kind>` token.
WellFormed(line) == TypeTokens(Split(line, " ")) # {}

\* The first `type` token of a line that carries a name and a kind.
TypeToken(line) ==
  LET ts == TypeTokens(Split(line, " "))
  IN CHOOSE t \in ts : \A u \in ts : t <= u

\* The name that a line carries: the tokens between `option name` and `type`.
OptionName(line) == Join(SubSeq(Split(line, " "), 3, TypeToken(line) - 1), " ")

\* The kind that a line carries: the token after `type`.
OptionKind(line) == Split(line, " ")[TypeToken(line) + 1]

\* C10: the option table holds an entry only under the name of a line that
\* carries both a name and a `type <kind>` token; such a line inserts the entry
\* of its name and kind, and an `option name` line whose name or type token is
\* missing leaves the table as it was.
C10_OptionTable ==
  /\ [](\A n \in DOMAIN options :
          \E line \in OptionLines :
            /\ WellFormed(line)
            /\ OptionName(line) = n
            /\ options[n].type = Some(OptionKind(line)))
  /\ [][ \A p \in DOMAIN procs, d \in OptionsEnv.data :
           (StartsWith(d, "option name") /\ EngineData(OptionsEnv, p, d))
             => IF WellFormed(Trim(d))
                THEN /\ DOMAIN options' = DOMAIN options \cup {OptionName(Trim(d))}
                     /\ options'[OptionName(Trim(d))].type = Some(OptionKind(Trim(d)))
                ELSE options' = options
       ]_vars

-----------------------------------------------------------------------------
(* The chunks of the output stream. *)

\* The lines that the 'data' listener hands to handleEngineOutput when the
\* chunks arrive one after the other.
RECURSIVE LinesHanded(_)
LinesHanded(chunks) ==
  IF chunks = <<>> THEN <<>>
  ELSE lines(Head(chunks)) \o LinesHanded(Tail(chunks))

\* The state after the 'data' listener has run on each chunk in turn.
RECURSIVE AfterChunks(_, _)
AfterChunks(s, chunks) ==
  IF chunks = <<>> \/ s.thrown THEN s
  ELSE AfterChunks(Microtasks(onData(s, Head(chunks))), Tail(chunks))

\* C11: for every stream and every way of splitting it in two chunks, the
\* lines handed to handleEngineOutput are those of the stream in one chunk, and
\* the supervisor ends in the state that the stream in one chunk leaves it in.
C11_ChunkSplit ==
  \A stream \in Streams : \A chunks \in Splits(stream) :
    /\ LinesHanded(chunks) = LinesHanded(<<stream>>)
    /\ AfterChunks(State, chunks) = AfterChunks(State, <<stream>>)

-----------------------------------------------------------------------------
(* The failures of start() and of a restart. *)

\* The start() invocations that the ten-second timer has rejected.
TimedOutStarts ==
  {k \in DOMAIN starts : starts[k].st = "rejected" /\ starts[k].err = "timeout"}

\* C12: when the ten-second timer of a start() fires and `readyok` has not
\* been received, the start() is rejected with the timeout error; and from then
\* on the supervisor is never ready with the subprocess of that launch.
C12_InitTimeout ==
  /\ [][ \A i \in DOMAIN timers :
           (InitTimer(i) /\ starts[timers[i].id].st = "pending")
             => /\ starts'[timers[i].id].st = "rejected"
                /\ starts'[timers[i].id].err = "timeout"
       ]_vars
  /\ [](\A k \in TimedOutStarts : ~(isReady /\ process = starts[k].pid))

\* The step ends the attemptRestart() in flight with its start() rejected.
RestartFails ==
  /\ restart # NoRestart
  /\ restart' = NoRestart
  /\ LET k == IF restart.pc = "handshake" THEN restart.start ELSE Len(starts')
     IN k \in DOMAIN starts' /\ starts'[k].by = "restart" /\ starts'[k].st = "rejected"

\* The start() invocations of restarts that were rejected.
FailedRestarts == {k \in DOMAIN starts : starts[k].by = "restart" /\ starts[k].st = "rejected"}

\* C13: when the start() of an automatic restart is rejected, one
\* `restart-failed` event is emitted, nothing is thrown, no call is settled, and
\* the restart-in-progress flag is cleared with the supervisor not ready; as
\* long as no getBestMove() has been called, the supervisor is not ready with
\* the subprocess of a failed restart; and a getBestMove() whose own restart
\* fails is rejected.
C13_RestartFailed ==
  /\ [][ /\ (restart.req = 0 /\ RestartFails)
              => /\ restartFailed' = restartFailed + 1
                 /\ ~isRestarting'
                 /\ ~isReady'
                 /\ ~crashed'
                 /\ reqs' = reqs
         /\ (restart.req # 0 /\ RestartFails)
              => /\ restartFailed' = restartFailed + 1
                 /\ reqs'[restart.req].st = "rejected"
       ]_vars
  /\ [](reqs = <<>> => \A k \in FailedRestarts : ~(isReady /\ process = starts[k].pid))

\* C14: when the delay of a restart has elapsed and start() is invoked again,
\* the option table is empty and no getBestMove() issued before is left
\* waiting for a `bestmove` line: none has its listener registered.
C14_RestartClears ==
  [][ \A i \in DOMAIN timers :
        RestartTimer(LifecycleEnv, i)
          => /\ options' = EmptyMap
             /\ Waiting' = {}
             /\ bestL' = <<>>
    ]_vars

\* An automatic restart, begun by the 'exit' listener, is in progress.
AutoRestartInProgress == isRestarting /\ restart.pc # "idle" /\ restart.req = 0

\* C15: a getBestMove() called while an automatic restart is in progress is
\* not rejected by the call itself: it is left pending, to proceed when the
\* restart has finished.
C15_WaitsForRestart ==
  [][ \A position \in Positions :
        (AutoRestartInProgress /\ GetBestMoveCall(position, None))
          => reqs'[Len(reqs')].st # "rejected"
    ]_vars

-----------------------------------------------------------------------------
(* The life-cycle state. *)

\* The state of the supervisor read from its fields: ready when isReady is
\* set; restarting while attemptRestart() waits to invoke start() again;
\* starting while a start() awaits the end of its handshake; else stopped.
EngineState ==
  IF isReady THEN "ready"
  ELSE IF restart.pc = "delay" THEN "restarting"
  ELSE IF PendingStarts # {} THEN "starting"
  ELSE "stopped"

\* The edges of the state table.
Edges ==
  {<<"stopped", "starting">>, <<"starting", "ready">>, <<"starting", "stopped">>,
   <<"ready", "restarting">>, <<"ready", "stopped">>, <<"restarting", "starting">>}

\* C16: every step that changes the state of the supervisor follows an edge of
\* the state table.
C16_StateTable ==
  [][EngineState' # EngineState => <<EngineState, EngineState'>> \in Edges]_vars

-----------------------------------------------------------------------------
(* The commands. *)

\* The commands that sendCommand() is called with outside a search.
Commands == {"uci", "isready", "quit"}

\* The supervisor holds a subprocess that is alive.
LiveSubprocess == process # 0 /\ procs[process].status = "alive"

\* C17: in every state, sendCommand(command) throws, leaving the state as it
\* is, when the supervisor holds no live subprocess; and otherwise it throws
\* nothing and appends the command and one newline to the standard input of
\* the subprocess, leaving all else as it is.
C17_SendCommand ==
  \A command \in Commands :
    LET t == sendCommand(State, command)
    IN IF LiveSubprocess
       THEN t = [State EXCEPT !.procs[process].stdin = Append(@, command \o "\n")]
       ELSE t = [State EXCEPT !.thrown = TRUE]

-----------------------------------------------------------------------------
(* The configuration of the engine. *)

\* The setoption commands among those that a step has appended to the
\* standard input of subprocess p.
SetoptionsSent(p) ==
  {procs'[p].stdin[i] : i \in {j \in (Len(procs[p].stdin) + 1)..Len(procs'[p].stdin) :
                                 StartsWith(procs'[p].stdin[j], "setoption")}}

\* The setoption commands that the configuration and the option table call for.
SetoptionsExpected ==
  (IF IsSome(config.skillLevel) /\ "Skill Level" \in DOMAIN options
   THEN {"setoption name Skill Level value " \o ToStr(Val(config.skillLevel)) \o "\n"}
   ELSE {})
  \cup
  (IF IsSome(config.skillLevel) /\ Val(config.skillLevel) < 20
      /\ "UCI_LimitStrength" \in DOMAIN options
   THEN {"setoption name UCI_LimitStrength value true\n"}
   ELSE {})

\* C18: when `readyok` from the subprocess that the supervisor holds completes
\* the handshake of a pending start(), the setoption commands sent to it are
\* exactly those that the configured skill level and the option table call
\* for, and no error is raised; and a setoption command is sent to no
\* subprocess by any step other than the handling of a `readyok` line.
C18_Configure ==
  [][ /\ \A p \in DOMAIN procs :
           (Current(p) /\ PendingStarts # {} /\ EngineData(OptionsEnv, p, "readyok\n"))
             => /\ SetoptionsSent(p) = SetoptionsExpected
                /\ ~crashed'
                /\ isReady'
      /\ \A p \in DOMAIN procs :
           (p \in DOMAIN procs' /\ SetoptionsSent(p) # {})
             => \E q \in DOMAIN procs : EngineData(OptionsEnv, q, "readyok\n")
      /\ \A p \in DOMAIN procs' \ DOMAIN procs :
           \A i \in DOMAIN procs'[p].stdin : ~StartsWith(procs'[p].stdin[i], "setoption")
    ]_vars

\* A handshake has ended with both commands sent, in the order of the code.
C18_Witness ==
  /\ isReady
  /\ process # 0
  /\ config.skillLevel = Some(8)
  /\ procs[process].stdin
       = <<"uci\n", "isready\n", "setoption name Skill Level value 8\n",
           "setoption name UCI_LimitStrength value true\n">>

-----------------------------------------------------------------------------
(* The fields of an option. *)

\* The integer that a token is the decimal numeral of.
IntegerOf(token) == CHOOSE n \in 0..MaxOptionValue : ToStr(n) = token

\* The positions of the tokens of a well-formed line, after its kind, that
\* are the keyword key.
Keywords(line, key) ==
  {i \in (TypeToken(line) + 2)..Len(Split(line, " ")) : Split(line, " ")[i] = key}

\* The token after the keyword key of a line that has it once.
TokenAfter(line, key) ==
  Split(line, " ")[(CHOOSE i \in Keywords(line, key) : TRUE) + 1]

\* The tokens after each `var` of the tokens from position i on, in order;
\* each is a value that is present.
RECURSIVE Choices(_, _)
Choices(parts, i) ==
  IF i >= Len(parts) THEN <<>>
  ELSE IF parts[i] = "var" THEN <<Some(parts[i + 1])>> \o Choices(parts, i + 2)
  ELSE Choices(parts, i + 1)

\* The Option that a well-formed line describes.
DescribedOption(line) ==
  [name |-> OptionName(line),
   type |-> Some(OptionKind(line)),
   default |-> IF Keywords(line, "default") = {} THEN None
               ELSE Some(TokenAfter(line, "default")),
   min |-> IF Keywords(line, "min") = {} THEN None
           ELSE Some(Some(IntegerOf(TokenAfter(line, "min")))),
   max |-> IF Keywords(line, "max") = {} THEN None
           ELSE Some(Some(IntegerOf(TokenAfter(line, "max")))),
   var |-> IF Keywords(line, "var") = {} THEN None
           ELSE Some(Choices(Split(line, " "), TypeToken(line) + 2))]

\* The chunks of the environment that are one well-formed option line.
WellFormedData ==
  {d \in ParseEnv.data : StartsWith(d, "option name") /\ WellFormed(Trim(d))}

\* The Option that each of them describes.
Described == [d \in WellFormedData |-> DescribedOption(Trim(d))]

\* C19: in every state, the handling of a well-formed option line stores,
\* under its whole name, the Option that it describes: name, kind, default,
\* min, max and choices, and changes nothing else; and the entry under the name
\* of a well-formed line is always that Option.
C19_ParseOption ==
  \A d \in WellFormedData :
    /\ LET t == onData(State, d)
       IN /\ Described[d].name \in DOMAIN t.options
          /\ t.options[Described[d].name] = Described[d]
          /\ DOMAIN t.options = DOMAIN options \cup {Described[d].name}
          /\ [t EXCEPT !.options = options] = State
    /\ Described[d].name \in DOMAIN options
         => options[Described[d].name] = Described[d]

\* The table holds a spin option with a name of two words, its default and
\* its range, and a combo option with its three choices in order.
C19_Witness ==
  /\ "Skill Level" \in DOMAIN options
  /\ options["Skill Level"]
       = [name |-> "Skill Level", type |-> Some("spin"), default |-> Some("20"),
          min |-> Some(Some(0)), max |-> Some(Some(20)), var |-> None]
  /\ "Analysis Contempt" \in DOMAIN options
  /\ options["Analysis Contempt"].var = Some(<<Some("Off"), Some("White"), Some("Both")>>)
  /\ options["Analysis Contempt"].default = Some("Both")

-----------------------------------------------------------------------------
(* The lines that change nothing. *)

\* The chunks of the environment that are one `info` line, one `bestmove`
\* line, or one line that handleEngineOutput recognizes no prefix of.
InfoData == {d \in LifecycleEnv.data : StartsWith(d, "info")}
StrayData == {d \in LifecycleEnv.data : StartsWith(d, "bestmove")}
UnrecognizedData == {"Stockfish 16 by the Stockfish developers\n"} \cap LifecycleEnv.data

\* No getBestMove() call awaits its result.
NoRequestOutstanding == \A r \in DOMAIN reqs : reqs[r].st # "waiting"

\* The handling of the chunk leaves the readiness, the option table and the
\* process handle as they are, writes to no subprocess, settles no call and
\* throws nothing.
Ignored(data) ==
  LET t == Microtasks(onData(State, data))
  IN /\ t.isReady = isReady
     /\ t.options = options
     /\ t.process = process
     /\ t.procs = procs
     /\ t.reqs = reqs
     /\ t.starts = starts
     /\ t.isRestarting = isRestarting
     /\ ~t.thrown

\* C20: in every state an `info` line and an unrecognized line are ignored,
\* and so is a `bestmove` line when no getBestMove() call awaits its result.
C20_IgnoredLines ==
  /\ \A data \in InfoData \cup UnrecognizedData : Ignored(data)
  /\ NoRequestOutstanding => \A data \in StrayData : Ignored(data)

\* A `bestmove` line can arrive late: a call has timed out, its listener is
\* still registered, and the subprocess is alive and held.
C20_Witness ==
  /\ isReady
  /\ process # 0
  /\ procs[process].status = "alive"
  /\ reqs # <<>>
  /\ reqs[1].st = "rejected"
  /\ reqs[1].err = "timeout"
  /\ bestL = <<1>>
  /\ InfoData # {} /\ StrayData # {} /\ UnrecognizedData # {}

-----------------------------------------------------------------------------
(* The exit with code 0. *)

\* The supervisor holds the handle of a subprocess that has exited, is not
\* ready, and neither a restart nor a stop() has set the restart flag.
Down ==
  /\ process # 0
  /\ procs[process].status = "exited"
  /\ ~isReady
  /\ ~isRestarting

\* The subprocesses that the supervisor holds alive with no restart in
\* progress and no stop() requested.
HeldAlive == {p \in DOMAIN procs : Current(p) /\ procs[p].status = "alive" /\ ~isRestarting}

\* C24: in every state, the exit with code 0 of the subprocess that the
\* supervisor holds, with no stop() requested and no restart in progress,
\* leaves the supervisor not ready and down, begins no restart, arms no timer
\* and spawns nothing; a supervisor that is down stays not ready, with the
\* same subprocesses, through every step that is not a call of start() or
\* getBestMove(); and a getBestMove() called on a supervisor that is down
\* begins the restart that the call awaits.
C24_CleanExit ==
  /\ [](\A p \in HeldAlive :
          LET t == Microtasks(onExit(State, p, Some(0)))
          IN /\ ~t.isReady
             /\ ~t.isRestarting
             /\ t.process = p
             /\ t.procs[p].status = "exited"
             /\ t.autoRestarts = autoRestarts
             /\ t.restart = NoRestart
             /\ t.timers = timers
             /\ Len(t.procs) = Len(procs)
             /\ t.starts = starts
             /\ ~t.thrown)
  /\ [][ (Down /\ Len(starts') = Len(starts) /\ Len(reqs') = Len(reqs))
          => /\ ~isReady'
             /\ Len(procs') = Len(procs)
             /\ autoRestarts' = autoRestarts
             /\ RestartTimers' = {} ]_vars
  /\ [](Down => \A position \in Positions :
                  LET t == Microtasks(getBestMove(State, position, None))
                  IN /\ t.restart = [pc |-> "delay", start |-> 0, req |-> Len(t.reqs)]
                     /\ t.reqs[Len(t.reqs)].st = "restarting"
                     /\ t.isRestarting
                     /\ Cardinality({i \in DOMAIN t.timers : t.timers[i].kind = "restart"}) = 1)

-----------------------------------------------------------------------------
(* stop() during an automatic restart. *)

\* The armed timers of attemptRestart() in state s.
RestartTimersOf(s) == {i \in DOMAIN s.timers : s.timers[i].kind = "restart"}

\* The subprocesses alive in state s.
AliveOf(s) == {p \in DOMAIN s.procs : s.procs[p].status = "alive"}

\* C26: in every state where an automatic restart waits out its delay or runs
\* its handshake, stop() leaves no subprocess alive, and the timer of the
\* restart, when it fires after stop() has returned, spawns no subprocess and
\* leaves the supervisor without a process handle.
C26_StopDuringRestart ==
  AutoRestartInProgress
    => LET t == Microtasks(stop(State))
       IN /\ AliveOf(t) = {}
          /\ \A i \in RestartTimersOf(t) :
               LET u == Microtasks(restartDelayElapsed([t EXCEPT !.timers = RemoveAt(@, i)], TRUE))
               IN /\ Len(u.procs) = Len(t.procs)
                  /\ AliveOf(u) = {}
                  /\ u.process = 0

-----------------------------------------------------------------------------
(* start() after stop(). *)

\* The subprocesses that a start() of the caller launched after a stop() had
\* stopped an earlier subprocess, that were sent `isready` and completed their
\* handshake, and that the supervisor holds alive and ready with no restart in
\* progress.
StartedAfterStop ==
  {p \in DOMAIN procs :
     /\ Current(p) /\ procs[p].status = "alive" /\ ~Stopped(p)
     /\ isReady
     /\ Count(procs[p].stdin, "isready\n") > 0
     /\ restart = NoRestart
     /\ \E k \in DOMAIN starts :
          starts[k].pid = p /\ starts[k].st = "resolved" /\ starts[k].by = "caller"
     /\ \E q \in 1..(p - 1) : Stopped(q)}

\* C27: in every state, the exit with a code other than 0 of a subprocess that
\* was started after a stop() begins one automatic restart, as the exit of the
\* first subprocess does: the supervisor is not ready, the restart is counted
\* and its timer of 1000 ms is armed.
C27_RestartAfterStopStart ==
  \A p \in StartedAfterStop, code \in ExitCodes \ {Some(0)} :
    LET t == Microtasks(onExit(State, p, code))
    IN /\ ~t.isReady
       /\ t.autoRestarts = autoRestarts + 1
       /\ t.restart = [pc |-> "delay", start |-> 0, req |-> 0]
       /\ Cardinality(RestartTimersOf(t)) = 1
       /\ \A i \in RestartTimersOf(t) : t.timers[i].ms = 1000

-----------------------------------------------------------------------------
(* The subprocesses alive. *)

\* C28: at most one subprocess is alive, and a subprocess that is alive is the
\* one the supervisor holds the handle of.
C28_OneLiveSubprocess ==
  /\ Cardinality(AliveOf(State)) <= 1
  /\ \A p \in AliveOf(State) : Current(p)

-----------------------------------------------------------------------------
(* The answer to a call that has timed out. *)

\* The pairs of calls <<r1, r2>> where r1 has timed out and the engine has
\* written no `bestmove` line since r1 sent its go command (the listener of r1
\* is still registered), and the later call r2 has sent its own go command to
\* the same live subprocess and waits: the next `bestmove` line of the engine
\* answers the go command of r1.
LateAnswerDue ==
  {rr \in (DOMAIN reqs) \X (DOMAIN reqs) :
     /\ rr[1] < rr[2]
     /\ reqs[rr[1]].st = "rejected" /\ reqs[rr[1]].err = "timeout"
     /\ Count(bestL, rr[1]) > 0
     /\ rr[2] \in Waiting
     /\ LiveSubprocess
     /\ Cardinality(SearchCommands(procs)) = 4}

\* C29: in every state where the answer to a call that has timed out is due
\* and a later call waits, the `bestmove` line that the engine writes next
\* does not settle the later call.
C29_OwnBestMove ==
  \A rr \in LateAnswerDue, data \in BestmoveData :
    LET t == Microtasks(onData(State, data))
    IN t.reqs[rr[2]].st = "waiting"

-----------------------------------------------------------------------------
(* Every call settles. *)

\* No start() and no getBestMove() call is pending.
AllSettled ==
  /\ \A k \in DOMAIN starts : starts[k].st # "pending"
  /\ \A r \in DOMAIN reqs : reqs[r].st \in {"resolved", "rejected"}

\* The node process has ended on an uncaught exception while a timer was
\* armed: that timer never fires.
TimersLost == crashed /\ timers # <<>>

\* A restart timer is never held back by the bounds of the model.
RestartNotBlocked == (RestartTimers # {}) => Len(starts) < SettleEnv.maxStarts

-----------------------------------------------------------------------------
(* The game. *)

\* isPlayerTurn()
isPlayerTurn == coreGameState.currentTurn = WHITE

\* The state after a call of the game layer and the continuations it has made
\* runnable.
AfterCall(s) == GameMicrotasks(Microtasks(s))

\* C21: a game on which initialize() was never called and that was not ended
\* is in state 'setup'; in state 'setup' white is to move, the move history is
\* empty and it is the turn of the player; in every state endGame() sets the
\* state to 'ended' and stops the engine (the subprocess held, if alive, is
\* sent `quit` and killed; no handle is left, and the mark of stop() is set)
\* and throws nothing; and the state becomes 'playing' only in a step in which the
\* start() that a pending initialize() awaits is resolved.
C21_GameLifecycle ==
  /\ []( /\ (CallerStarts = {} /\ gameState # "ended") => gameState = "setup"
         /\ gameState = "setup"
              => /\ coreGameState.currentTurn = WHITE
                 /\ moveHistory = <<>>
                 /\ isPlayerTurn
         /\ LET t == AfterCall(endGame(State))
            IN /\ t.game.gameState = "ended"
               /\ t.process = 0
               /\ t.isRestarting
               /\ (process # 0 /\ procs[process].status = "alive")
                    => t.procs[process] = [status |-> "killed",
                                           stdin |-> Append(procs[process].stdin, "quit\n")]
               /\ t.game.coreGameState = coreGameState
               /\ t.game.moveHistory = moveHistory
               /\ ~t.thrown )
  /\ [][ (gameState # "playing" /\ gameState' = "playing")
           => /\ initCall # 0
              /\ starts[initCall].st = "pending"
              /\ starts'[initCall].st = "resolved"
              /\ initCall' = 0 ]_vars

\* A game was entered, a move was made, and endGame() has stopped the engine.
C21_Witness ==
  /\ gameState = "ended"
  /\ CallerStarts # {}
  /\ \A k \in CallerStarts : starts[k].st = "resolved"
  /\ moveHistory # <<>>
  /\ process = 0
  /\ procs # <<>>
  /\ procs[1].status = "killed"

\* The move names two squares, and the library lists the second among the
\* legal moves of the first.
LegalTarget(from, to) ==
  /\ parsePosition(from) # None
  /\ parsePosition(to) # None
  /\ Val(parsePosition(to)) \in getLegalMoves(Val(parsePosition(from)), coreGameState)

\* C22: in every state where the game is 'playing', makePlayerMove(from, to)
\* with a target that is among the legal moves of the source appends the one
\* entry from-to to the move history, hands the turn to the other side and
\* returns isValid = true; with any other move it returns isValid = false and
\* leaves the move history, the board and the turn as they are; and it
\* changes nothing of the engine.
C22_PlayerMove ==
  gameState = "playing"
    => \A move \in PlayerMoves :
         LET notation == move[1] \o "-" \o move[2]
             t == AfterCall(makePlayerMove(State, move[1], move[2]))
         IN /\ IF LegalTarget(move[1], move[2])
               THEN /\ t.game.moveHistory = Append(moveHistory, notation)
                    /\ t.game.coreGameState.currentTurn # coreGameState.currentTurn
                    /\ t.game.coreGameState.board # coreGameState.board
                    /\ t.game.result = MoveResult(notation, TRUE)
               ELSE /\ t.game.moveHistory = moveHistory
                    /\ t.game.coreGameState = coreGameState
                    /\ t.game.result = MoveResult(notation, FALSE)
            /\ t.game.gameState = "playing"
            /\ [t EXCEPT !.game = State.game] = State

\* The player has made a legal move in a game that is played, and a move that
\* is not legal has then been refused.
C22_Witness ==
  /\ gameState = "playing"
  /\ moveHistory = <<"e2-e4">>
  /\ coreGameState.currentTurn = BLACK
  /\ result = MoveResult("e2-e5", FALSE)

\* C23: in every state where the game is not 'playing', makePlayerMove(from,
\* to) returns isValid = false, throws nothing and changes nothing but the
\* result returned.
C23_PlayerMoveNotPlaying ==
  gameState # "playing"
    => \A move \in PlayerMoves :
         LET t == AfterCall(makePlayerMove(State, move[1], move[2]))
         IN /\ t.game.result = MoveResult(move[1] \o "-" \o move[2], FALSE)
            /\ ~t.thrown
            /\ [t EXCEPT !.game.result = result] = State

\* After endGame() on the turn of black, a move of the black pawn has been
\* refused.
C23_Witness ==
  /\ gameState = "ended"
  /\ moveHistory = <<"e2-e4">>
  /\ coreGameState.currentTurn = BLACK
  /\ result = MoveResult("e7-e5", FALSE)

\* In this step a pending makeEngineMove() returns, getBestMove() number r
\* having settled.
EngineMoveReturns(r) == engineCall.req = r /\ r # 0 /\ engineCall'.req = 0

\* getBestMove() number r was rejected, or resolved with no move or with
\* `(none)`.
NoMoveFrom(rs, r) ==
  \/ rs[r].st = "rejected"
  \/ ~TruthyStr(rs[r].move)
  \/ rs[r].move = Some("(none)")

\* In this step the game is left as it is, the result is not valid, and the
\* game loop, if it made the call, ends the game.
EngineMoveRefused ==
  /\ result' = MoveResult("", FALSE)
  /\ coreGameState' = coreGameState
  /\ moveHistory' = moveHistory
  /\ engineCall.loop => (gameState' = "ended" /\ process' = 0)

\* makeEngineMove() called in state s by another caller than the game loop
\* returns at once a result that is not valid and changes nothing else, when
\* the game is not played or it is not the turn of black; it asks the engine
\* for a move otherwise.
EngineMoveGuard ==
  LET t == AfterCall(makeEngineMove(State, FALSE))
  IN IF gameState # "playing" \/ coreGameState.currentTurn # BLACK
     THEN /\ t.game.result = MoveResult("", FALSE)
          /\ [t EXCEPT !.game.result = result] = State
     ELSE /\ Len(t.reqs) = Len(reqs) + 1
          /\ t.reqs[Len(t.reqs)].position = boardToFen(coreGameState)

\* C25 as stated: makeEngineMove() acts only when the game is 'playing' and it
\* is the turn of black; when the request is rejected or gives no move or
\* `(none)`, the call returns isValid = false, the board, the turn and the
\* history are left as they are, and the game loop ends the game; after any
\* other answer the move is applied and the history gains that one entry.
C25_EngineMove ==
  /\ [](engineCall = NoEngineCall => EngineMoveGuard)
  /\ [][ \A r \in DOMAIN reqs :
           EngineMoveReturns(r)
             => IF NoMoveFrom(reqs', r) THEN EngineMoveRefused
                ELSE /\ coreGameState' # coreGameState
                     /\ coreGameState'.currentTurn # coreGameState.currentTurn
                     /\ moveHistory' = Append(moveHistory, Val(reqs'[r].move))
                     /\ result' = MoveResult(Val(reqs'[r].move), TRUE) ]_vars

\* The first four characters of the move name two squares, and the library
\* accepts the move from the first to the second on the board of the game.
Accepted(engineMove) ==
  LET fromPos == parsePosition(Substring(engineMove, 0, 2))
      toPos == parsePosition(Substring(engineMove, 2, 4))
  IN /\ fromPos # None
     /\ toPos # None
     /\ Val(toPos) \in getLegalMoves(Val(fromPos), coreGameState)

\* C25, amended: as above, but the move is applied and recorded only when its
\* squares parse and the library accepts it; a move that does not parse or
\* that the library rejects is refused like a missing one.
C25_EngineMoveAccepted ==
  /\ [](engineCall = NoEngineCall => EngineMoveGuard)
  /\ [][ \A r \in DOMAIN reqs :
           EngineMoveReturns(r)
             => IF NoMoveFrom(reqs', r) \/ ~Accepted(Val(reqs'[r].move))
                THEN EngineMoveRefused
                ELSE /\ coreGameState' # coreGameState
                     /\ coreGameState'.currentTurn # coreGameState.currentTurn
                     /\ moveHistory' = Append(moveHistory, Val(reqs'[r].move))
                     /\ result' = MoveResult(Val(reqs'[r].move), TRUE) ]_vars

\* The engine has answered the game loop with a move that the library does
\* not accept on the turn of black: the move was refused and the game ended.
C25_Witness ==
  /\ gameState = "ended"
  /\ moveHistory = <<"e2-e4">>
  /\ coreGameState.currentTurn = BLACK
  /\ result = MoveResult("", FALSE)
  /\ engineCall = NoEngineCall
  /\ \E r \in DOMAIN reqs : reqs[r].st = "resolved" /\ reqs[r].move = Some("e2e4")

=============================================================================
